---- MODULE Spec2Model ----
(***************************************************************************)
(* A model of extract_stores.py: the sitemap-driven scraper that fetches   *)
(* every store page on a thread pool (get_store_details, with a retry loop *)
(* on HTTP 429), collects the results as they complete (main) and prints   *)
(* the records sorted by their reference id.                               *)
(*                                                                         *)
(* Four specifications share the definitions below:                       *)
(*   Spec       main() over up to MaxUrls URLs and a pool of workers, the  *)
(*              site serving a handful of pages (FewPages);                *)
(*   SpecBuild  main() over at most one URL, the site serving every page   *)
(*              within the bounds (AllPages);                              *)
(*   SpecFetch  one call of get_store_details with the history of its      *)
(*              responses and of its sleeps (FetchPages), and the          *)
(*              collection of its result;                                  *)
(*   SpecSitemap  one call of extract_urls_from_sitemap on every sitemap   *)
(*              within the bounds.                                         *)
(*                                                                         *)
(* Text is modelled as a sequence of code points, so that Python's string  *)
(* order is the lexicographic order computed here; a dayOfWeek text is the *)
(* sequence of its '/'-separated segments and a <loc> text the sequence of *)
(* its pieces.  Durations are counted in ticks, JitterRes ticks to the     *)
(* second.                                                                 *)
(***************************************************************************)
EXTENDS Integers, Sequences, FiniteSets, TLC

\* ---------------------------------------------------------------- constants

MAX_RETRIES == 5
INITIAL_DELAY == 2

\* ------------------------------------------------------------------- bounds

\* Longest sitemap URL list of Spec.
MaxUrls == 3
\* Largest pool size (--workers) of Spec.
MaxWorkers == 2
\* Ticks per second: random.uniform(0, 1) is one of 0/JitterRes .. (JitterRes-1)/JitterRes.
JitterRes == 3
\* Longest openingHoursSpecification list of AllPages.
MaxHours == 4
\* Most Service items on a page of AllPages.
MaxServices == 3
\* Most <loc> elements of a sitemap of SpecSitemap.
MaxLocs == 3
\* Most items of a block of MixedPages.
MaxItems == 3
\* Longest openingHoursSpecification list of ShapePages.
MaxShapedHours == 2

\* ------------------------------------------------------------------ helpers

RECURSIVE Pow2(_)
Pow2(n) == IF n = 0 THEN 1 ELSE 2 * Pow2(n - 1)

Range(s) == {s[k] : k \in 1..Len(s)}

\* All sequences over S of length at most n.
SeqsUpTo(S, n) == UNION {[1..k -> S] : k \in 0..n}

\* Python's order on str: lexicographic by code point, a proper prefix first.
RECURSIVE StrLess(_, _)
StrLess(s, t) ==
    IF t = <<>> THEN FALSE
    ELSE IF s = <<>> THEN TRUE
    ELSE IF s[1] # t[1] THEN s[1] < t[1]
    ELSE StrLess(Tail(s), Tail(t))

\* ------------------------------------------------- extract_urls_from_sitemap

\* Line 25: elem.text of a <loc> element: None when the element holds no
\* text, else the text, here the sequence of its pieces.
NoText == [t |-> "None", s |-> <<>>]
LocText(pieces) == [t |-> "str", s |-> pieces]

\* Line 28: the marker 'ampol.com.au/en/', two adjacent pieces of a text.
Marker == <<"ampol.com.au", "/en/">>

\* Line 28: Python's `marker in text` on str: text holds marker as a
\* contiguous run.
Contains(text, marker) ==
    \E k \in 1..(Len(text) - Len(marker) + 1) :
        SubSeq(text, k, k + Len(marker) - 1) = marker

\* A sitemap file: whether ET.parse accepts it (line 22) and the <loc>
\* elements of the sitemap namespace that findall returns (line 25), in
\* document order.
Sitemap(wellFormed, locs) == [wellFormed |-> wellFormed, locs |-> locs]

\* Line 28: the condition of the comprehension on one text.
KeepLoc(text) == Contains(text, Marker)

\* Lines 19-32.  `in` raises TypeError on a None text; that and a parse error
\* are caught at line 30 and the function returns [].
extract_urls_from_sitemap(doc) ==
    IF ~doc.wellFormed THEN <<>>
    ELSE IF \E k \in DOMAIN doc.locs : doc.locs[k].t = "None" THEN <<>>
    ELSE LET texts == [k \in DOMAIN doc.locs |-> doc.locs[k].s]
         IN  SelectSeq(texts, KeepLoc)

\* ------------------------------------------------------------ JSON-LD values

\* The value of store_info.get('@id'): None when the key is absent, else text.
NoneRef == [t |-> "None", s |-> <<>>]
StrRef(s) == [t |-> "str", s |-> s]

\* The texts of the model, by code point: "" < "C" < "Ca" < "F" and "a" < "b".
TxtEmpty == <<>>
TxtC == <<67>>
TxtCa == <<67, 97>>
TxtF == <<70>>
Txta == <<97>>
Txtb == <<98>>

\* The shapes a JSON value can have, and "absent" for a key that is missing.
Shapes == {"dict", "list", "str", "num", "null"}
ShapesOrAbsent == Shapes \cup {"absent"}

\* The value under a key of a mapping: no value when the key is absent,
\* else the one value.
Absent == <<>>
Present(value) == <<value>>
ShapeOf(x) == IF x = Absent THEN "absent" ELSE x[1].shape

\* A value copied into the record as it is: None, or the value (a number
\* stands for it, whatever its shape).
NoneVal == <<>>
Val(v) == <<v>>

\* One element of openingHoursSpecification.  isDict is false for an element
\* that is not a mapping; dayShape is the shape of its 'dayOfWeek', and
\* dayOfWeek the text split at '/' when it is a text; opens stands for the
\* value of 'opens', which the code copies whatever its shape.
HoursEntry(isDict, dayShape, day, opens) ==
    [isDict |-> isDict, dayShape |-> dayShape, dayOfWeek |-> day, opens |-> opens]

\* A mapping whose dayOfWeek is the text `day`.
HoursSpec(day, opens) == HoursEntry(TRUE, "str", day, opens)

\* The value of 'addressCountry': its shape and, for a mapping, what
\* .get('name') gives.
Country(shape, name) == [shape |-> shape, name |-> name]

\* The value of 'address': its shape and, for a mapping, what
\* .get('streetAddress') gives and the value under 'addressCountry'.
Address(shape, street, country) ==
    [shape |-> shape, street |-> street, country |-> country]
NoAddress == Absent

\* The value of 'latitude' or 'longitude' in a geo mapping: the empty text
\* ("empty"), a text float() rejects ("text"), the decimal text of v
\* ("numtext"), or the number v ("num").
Coord(kind, v) == [kind |-> kind, v |-> v]
NoCoord == Absent

\* The value of 'geo': its shape and, for a mapping, the values under
\* 'latitude' and 'longitude'.
Geo(shape, latitude, longitude) ==
    [shape |-> shape, latitude |-> latitude, longitude |-> longitude]
NoGeo == Absent

\* The items of a decoded block.  isDict is false for an item that is not a
\* mapping; hasServiceType says whether the key 'serviceType' is present;
\* hoursShape is the shape of 'openingHoursSpecification' and hours its
\* elements (the one mapping itself when the shape is "dict").
Item(isDict, type) ==
    [isDict |-> isDict, type |-> type, id |-> NoneRef, name |-> 0,
     address |-> NoAddress, geo |-> NoGeo, hoursShape |-> "absent", hours |-> <<>>,
     hasServiceType |-> FALSE, serviceType |-> <<>>]

LocalBusiness(id, name, hours) ==
    [Item(TRUE, "LocalBusiness") EXCEPT
        !.id = id, !.name = name, !.hoursShape = "list", !.hours = hours]

\* A store whose nested values have the given shapes.
ShapedBusiness(address, geo, hoursShape, hours) ==
    [Item(TRUE, "LocalBusiness") EXCEPT
        !.id = StrRef(Txta), !.name = 1, !.address = address, !.geo = geo,
        !.hoursShape = hoursShape, !.hours = hours]

Service(has, st) ==
    [Item(TRUE, "Service") EXCEPT !.hasServiceType = has, !.serviceType = st]

\* A mapping of another type, with or without the key 'serviceType'.
Organization(has, st) ==
    [Item(TRUE, "Organization") EXCEPT !.hasServiceType = has, !.serviceType = st]

\* An item that is not a mapping (a string, a number, null, a list).
NotAMapping == Item(FALSE, "")

\* A fetched page: block says what the search for the JSON-LD script finds
\* ("absent": no opening marker, "unclosed": no closing marker, "malformed":
\* text json.loads rejects, "json"); shape is how the decoded value holds
\* its items ("object", "list", "graph").
Page(block, shape, items) == [block |-> block, shape |-> shape, items |-> items]

\* ------------------------------------------------------- get_store_details

\* What get_store_details returns: None, or the record.
NoneResult ==
    [ok |-> FALSE, ref |-> NoneRef, name |-> 0, address |-> NoneVal,
     country |-> NoneVal, latitude |-> NoneVal, longitude |-> NoneVal,
     openingHours |-> <<>>, services |-> <<>>]

\* Mutant: the key '@graph' is not looked for: the mapping holding it is
\* taken as the single item.
DataListWithoutGraph(page) ==
    CASE page.shape = "list" -> page.items
      [] page.shape = "object" -> <<page.items[1]>>
      [] OTHER -> <<Item(TRUE, "")>>

\* Lines 60-65: the decoded value as a list of items.  A single object is
\* wrapped in a one-element list; a list, and the list under '@graph', are
\* taken as they are.
DataList(page) ==
    IF page.shape = "object" THEN <<page.items[1]>> ELSE page.items

\* str.split('/')[-1]
LastSegment(segs) == segs[Len(segs)]

\* Lines 76-79: the street of the record: None unless address is a mapping
\* (the default {} of a missing key holds no street).
Street(address_info) ==
    IF ShapeOf(address_info) = "dict" THEN address_info[1].street ELSE NoneVal

\* Lines 80-81: the country of the record: None unless address and its
\* addressCountry are mappings.
CountryName(address_info) ==
    IF ShapeOf(address_info) = "dict" /\ ShapeOf(address_info[1].country) = "dict"
    THEN address_info[1].country[1].name
    ELSE NoneVal

\* Lines 84-85: `geo_info.get('latitude')` is true: the key is present and
\* its value is neither the empty text nor zero.
CoordTruthy(c) ==
    /\ c # Absent
    /\ \/ c[1].kind \in {"text", "numtext"}
       \/ c[1].kind = "num" /\ c[1].v # 0

\* The value under a key of geo_info, when geo_info is a mapping.
CoordOf(geo_info, key) ==
    IF ShapeOf(geo_info) # "dict" THEN Absent
    ELSE IF key = "latitude" THEN geo_info[1].latitude ELSE geo_info[1].longitude

\* Lines 84-85: float() is called on the coordinate.
CoordConverted(geo_info, key) == CoordTruthy(CoordOf(geo_info, key))

\* Lines 84-85: float() raises ValueError on a text that is not a number.
CoordRaises(geo_info, key) ==
    CoordConverted(geo_info, key) /\ CoordOf(geo_info, key)[1].kind = "text"

\* Lines 84-85: the coordinate of the record.
Coordinate(geo_info, key) ==
    IF CoordConverted(geo_info, key) THEN Val(CoordOf(geo_info, key)[1].v)
    ELSE NoneVal

\* Lines 88-89: the default [] of a missing key, a list as it is, and any
\* other value wrapped in a one-element list.
HoursSpecs(store_info) ==
    CASE store_info.hoursShape = "absent" -> <<>>
      [] store_info.hoursShape \in {"list", "dict"} -> store_info.hours
      [] OTHER -> <<HoursEntry(FALSE, "absent", <<>>, 0)>>

\* Line 91: the elements of the list that are mappings.
IsMapping(spec) == spec.isDict
MappingSpecs(hours_specs) == SelectSeq(hours_specs, IsMapping)

\* Line 92: spec.get('dayOfWeek', '') is a text only when the key is absent
\* or holds one; .split raises AttributeError on anything else.
DayRaises(spec) == spec.dayShape \notin {"str", "absent"}

\* Line 92: the default '' when the key is absent; ''.split('/') is [''].
DaySegments(spec) == IF spec.dayShape = "absent" THEN <<"">> ELSE spec.dayOfWeek

\* Lines 87-93: one output entry per mapping of openingHoursSpecification.
OpeningHours(hours_specs) ==
    LET specs == MappingSpecs(hours_specs)
    IN  [k \in 1..Len(specs) |->
            [dayOfWeek |-> LastSegment(DaySegments(specs[k])),
             opens |-> specs[k].opens]]

\* Lines 84-92 raise: float() on a coordinate, or .split on a dayOfWeek.
\* get_store_details catches it at line 117 and returns None.
BuildRaises(store_info) ==
    \/ CoordRaises(store_info.geo, "latitude")
    \/ CoordRaises(store_info.geo, "longitude")
    \/ LET hours_specs == HoursSpecs(store_info)
       IN  \E k \in DOMAIN hours_specs :
               hours_specs[k].isDict /\ DayRaises(hours_specs[k])

\* Mutant: without a LocalBusiness item the first item is the store.
StoreIndexDefaultsToFirst(data_list) ==
    LET lb == {k \in 1..Len(data_list) :
                  data_list[k].isDict /\ data_list[k].type = "LocalBusiness"}
    IN  IF lb = {} THEN 1 ELSE CHOOSE k \in lb : \A j \in lb : j <= k

\* Mutant: the first LocalBusiness item is kept.
StoreIndexFirst(data_list) ==
    LET lb == {k \in 1..Len(data_list) :
                  data_list[k].isDict /\ data_list[k].type = "LocalBusiness"}
    IN  IF lb = {} THEN 0 ELSE CHOOSE k \in lb : \A j \in lb : k <= j

\* Lines 68-72: the last LocalBusiness item of the list (each one overwrites
\* store_info), 0 when there is none.
StoreIndex(data_list) ==
    LET lb == {k \in 1..Len(data_list) :
                  data_list[k].isDict /\ data_list[k].type = "LocalBusiness"}
    IN  IF lb = {} THEN 0 ELSE CHOOSE k \in lb : \A j \in lb : j <= k

\* Mutant: the serviceType of every mapping holding the key, of any type.
ServiceTypesOfAnyType(data_list) ==
    LET keep(item) == item.isDict /\ item.hasServiceType
        sel == SelectSeq(data_list, keep)
    IN  [k \in 1..Len(sel) |-> sel[k].serviceType]

\* Lines 68-72: the serviceType of every Service item holding the key.
ServiceTypes(data_list) ==
    LET keep(item) == item.isDict /\ item.type = "Service" /\ item.hasServiceType
        sel == SelectSeq(data_list, keep)
    IN  [k \in 1..Len(sel) |-> sel[k].serviceType]

\* Line 99: sorted(list(set(services))).
RECURSIVE SortedTexts(_)
SortedTexts(S) ==
    IF S = {} THEN <<>>
    ELSE LET m == CHOOSE x \in S : \A y \in S : y = x \/ StrLess(x, y)
         IN  <<m>> \o SortedTexts(S \ {m})

\* Mutant: the list of services is returned as collected.
SortedServicesAsCollected(services) == services

SortedServices(services) == SortedTexts(Range(services))

\* Lines 47-100: the parsing of a page that was fetched.
ParsePage(page) ==
    IF page.block \in {"absent", "unclosed", "malformed"} THEN NoneResult
    ELSE LET data_list == DataList(page)
             si == StoreIndex(data_list)
         IN  IF si = 0 THEN NoneResult
             ELSE IF BuildRaises(data_list[si]) THEN NoneResult
             ELSE [ok |-> TRUE,
                   ref |-> data_list[si].id,
                   name |-> data_list[si].name,
                   address |-> Street(data_list[si].address),
                   country |-> CountryName(data_list[si].address),
                   latitude |-> Coordinate(data_list[si].geo, "latitude"),
                   longitude |-> Coordinate(data_list[si].geo, "longitude"),
                   openingHours |-> OpeningHours(HoursSpecs(data_list[si])),
                   services |-> SortedServices(ServiceTypes(data_list))]

\* Lines 39-121: one pass of the retry loop, given the response to the
\* request of this attempt (attempt counts from 0).  "ok" is a page read and
\* decoded; "429" and "http_error" are HTTPError with and without code 429;
\* "url_error" is URLError (a timeout included); "decode_error" is any other
\* exception of the fetch (a body that is not UTF-8).
Responses == {"ok", "429", "http_error", "url_error", "decode_error"}

\* Mutant: every HTTPError is retried, not only code 429.
AttemptStepRetriesHttpErrors(att, resp, page) ==
    IF resp = "ok" THEN [next |-> "return", result |-> ParsePage(page)]
    ELSE IF resp \in {"429", "http_error"} /\ att < MAX_RETRIES - 1
         THEN [next |-> "sleep", result |-> NoneResult]
         ELSE [next |-> "return", result |-> NoneResult]

\* Mutant: the loop gives up on a 429 one attempt early.
AttemptStepGivesUpEarly(att, resp, page) ==
    IF resp = "ok" THEN [next |-> "return", result |-> ParsePage(page)]
    ELSE IF resp = "429" /\ att < MAX_RETRIES - 2
         THEN [next |-> "sleep", result |-> NoneResult]
         ELSE [next |-> "return", result |-> NoneResult]

AttemptStep(att, resp, page) ==
    IF resp = "ok" THEN [next |-> "return", result |-> ParsePage(page)]
    ELSE IF resp = "429" /\ att < MAX_RETRIES - 1
         THEN [next |-> "sleep", result |-> NoneResult]
         ELSE [next |-> "return", result |-> NoneResult]

\* random.uniform(0, 1), in ticks.
Jitter == 0..(JitterRes - 1)

\* Mutant: the delay grows linearly (2, 4, 6, 8 seconds).
BackoffDelayLinear(att, jitter) == INITIAL_DELAY * (att + 1) * JitterRes + jitter

\* Line 106: delay = (INITIAL_DELAY * 2**attempt) + random.uniform(0, 1), in ticks.
BackoffDelay(att, jitter) == INITIAL_DELAY * Pow2(att) * JitterRes + jitter

\* ------------------------------------------------------- sort_opening_hours

\* Line 126-127: day_order.get(day, 7).
DayOrder(day) ==
    CASE day = "Monday" -> 0
      [] day = "Tuesday" -> 1
      [] day = "Wednesday" -> 2
      [] day = "Thursday" -> 3
      [] day = "Friday" -> 4
      [] day = "Saturday" -> 5
      [] day = "Sunday" -> 6
      [] OTHER -> 7

\* Mutant: x goes before the entries of its own day.
RECURSIVE InsertHoursBeforeEqual(_, _)
InsertHoursBeforeEqual(sorted, x) ==
    IF sorted = <<>> THEN <<x>>
    ELSE LET last == sorted[Len(sorted)]
         IN  IF DayOrder(last.dayOfWeek) < DayOrder(x.dayOfWeek)
             THEN Append(sorted, x)
             ELSE Append(InsertHoursBeforeEqual(SubSeq(sorted, 1, Len(sorted) - 1), x),
                         last)

\* sorted() is stable: x goes after every entry whose key is not greater.
RECURSIVE InsertHours(_, _)
InsertHours(sorted, x) ==
    IF sorted = <<>> THEN <<x>>
    ELSE LET last == sorted[Len(sorted)]
         IN  IF DayOrder(last.dayOfWeek) <= DayOrder(x.dayOfWeek)
             THEN Append(sorted, x)
             ELSE Append(InsertHours(SubSeq(sorted, 1, Len(sorted) - 1), x), last)

RECURSIVE SortedHours(_)
SortedHours(hours) ==
    IF hours = <<>> THEN <<>>
    ELSE InsertHours(SortedHours(SubSeq(hours, 1, Len(hours) - 1)), hours[Len(hours)])

\* Lines 123-128.
sort_opening_hours(store_data) ==
    IF store_data.ok /\ store_data.openingHours # <<>>
    THEN [store_data EXCEPT !.openingHours = SortedHours(store_data.openingHours)]
    ELSE store_data

\* --------------------------------------------------------------------- main

\* Line 179: the sort key x.get('ref', ''): every record holds the key 'ref',
\* so the default is never used and an absent '@id' gives the key None.
RefKey(rec) == rec.ref

\* sorted() raises TypeError as soon as it compares None with anything, which
\* it does for every list of two or more keys that holds a None.
SortRaises(stores) ==
    Len(stores) >= 2 /\ \E k \in 1..Len(stores) : RefKey(stores[k]).t = "None"

RECURSIVE InsertStore(_, _)
InsertStore(sorted, x) ==
    IF sorted = <<>> THEN <<x>>
    ELSE LET last == sorted[Len(sorted)]
         IN  IF ~StrLess(RefKey(x).s, RefKey(last).s)
             THEN Append(sorted, x)
             ELSE Append(InsertStore(SubSeq(sorted, 1, Len(sorted) - 1), x), last)

\* Mutant: the records are printed in the order they were collected.
SortedStoresAsCollected(stores) == stores

RECURSIVE SortedStores(_)
SortedStores(stores) ==
    IF stores = <<>> THEN <<>>
    ELSE InsertStore(SortedStores(SubSeq(stores, 1, Len(stores) - 1)),
                     stores[Len(stores)])

\* What the process has written to stdout: nothing, or the JSON array.
NoOutput == [printed |-> FALSE, array |-> <<>>]
Printed(array) == [printed |-> TRUE, array |-> array]

\* Lines 179-180: the sort and the print; nothing is printed when the sort raises.
Output(stores) == IF SortRaises(stores) THEN NoOutput ELSE Printed(SortedStores(stores))

\* ------------------------------------------------------------------ the site

\* The dayOfWeek texts of the model, split at '/': plain names, a name no day
\* has, and a schema URI.
DayTexts ==
    {<<"Monday">>, <<"Wednesday">>, <<"Sunday">>, <<"bogus">>,
     <<"https:", "", "schema.org", "Monday">>}

\* An openingHoursSpecification list with the given dayOfWeek texts; opens is
\* the entry's place in the list, so no two entries are equal.
HoursList(days) == [k \in 1..Len(days) |-> HoursSpec(days[k], k)]

StorePage(id, name, days, services) ==
    Page("json", "graph",
         <<LocalBusiness(id, name, HoursList(days))>>
         \o [k \in 1..Len(services) |-> Service(TRUE, services[k])])

\* The pages of Spec: stores without '@id', with an empty one, and two
\* different stores with the same '@id'.  A task of Spec fails by the
\* response to its request; the pages that give no record are served in
\* SpecFetch and in SpecBuild.
FewPages ==
    {StorePage(NoneRef, 1, <<>>, <<>>),
     StorePage(StrRef(TxtEmpty), 2, <<>>, <<>>),
     StorePage(StrRef(Txta), 3, <<<<"Wednesday">>, <<"Monday">>>>, <<TxtF, TxtCa, TxtF>>),
     StorePage(StrRef(Txta), 4, <<>>, <<>>)}

\* The pages of SpecFetch: those, a page without the block, a page whose
\* block is not closed, a page whose block is not JSON and a page whose
\* block holds no LocalBusiness.
FetchPages ==
    FewPages \cup {Page("absent", "object", <<>>),
                   Page("unclosed", "object", <<>>), Page("malformed", "object", <<>>),
                   Page("json", "list", <<Service(TRUE, TxtF)>>)}

\* No page: the request did not return one.
NoPage == Page("none", "object", <<>>)

\* The pages of SpecBuild: a store with every list of opening hours, a
\* store with every list of services, every mixed block and a store with
\* every shape of its nested values, within the bounds.
ServiceTexts == {TxtC, TxtCa, TxtF}

\* The items of MixedPages: two different stores, Service items with a
\* serviceType, with an empty one and without the key, a mapping of another
\* type holding the key, and an item that is not a mapping.
MixedItems ==
    {LocalBusiness(StrRef(Txta), 1, HoursList(<<<<"Monday">>>>)),
     LocalBusiness(StrRef(Txtb), 2, <<>>),
     Service(TRUE, TxtF), Service(TRUE, TxtEmpty), Service(FALSE, <<>>),
     Organization(TRUE, TxtC), NotAMapping}

\* Every block of at most MaxItems such items, as a list and under '@graph',
\* and every block that is one such item alone.
MixedPages ==
    {Page("json", shape, items) :
        shape \in {"list", "graph"}, items \in SeqsUpTo(MixedItems, MaxItems)}
    \cup {Page("json", "object", <<item>>) : item \in MixedItems}

\* The values of 'addressCountry' and of 'address': every shape, and
\* mappings with and without their keys.
CountryValues ==
    {Absent} \cup {Present(Country(shape, NoneVal)) : shape \in Shapes}
        \cup {Present(Country("dict", Val(7)))}

AddressValues ==
    {Absent} \cup {Present(Address(shape, NoneVal, Absent)) : shape \in Shapes}
        \cup {Present(Address("dict", Val(5), country)) : country \in CountryValues}

\* The values of a coordinate and of 'geo'.
CoordValues ==
    {Absent, Present(Coord("empty", 0)), Present(Coord("text", 0)),
     Present(Coord("numtext", 0)), Present(Coord("numtext", 15)),
     Present(Coord("num", 0)), Present(Coord("num", 15))}

GeoValues ==
    {Absent} \cup {Present(Geo(shape, Absent, Absent)) : shape \in Shapes}
        \cup {Present(Geo("dict", latitude, longitude)) :
                 latitude \in CoordValues, longitude \in CoordValues}

\* The elements of an openingHoursSpecification list: a mapping with every
\* shape of dayOfWeek, and an element that is not a mapping.
HoursElements ==
    {HoursEntry(TRUE, shape, IF shape = "str" THEN <<"Monday">> ELSE <<>>, 1) :
        shape \in ShapesOrAbsent}
        \cup {HoursEntry(FALSE, "absent", <<>>, 0)}

\* Every store with one such address, with one such geo, and with an
\* openingHoursSpecification of every shape: absent, a scalar, one mapping
\* alone, and every list of at most MaxShapedHours elements.
ShapePages ==
    {Page("json", "list", <<ShapedBusiness(address, NoGeo, "absent", <<>>)>>) :
        address \in AddressValues}
    \cup {Page("json", "list", <<ShapedBusiness(NoAddress, geo, "absent", <<>>)>>) :
             geo \in GeoValues}
    \cup {Page("json", "list", <<ShapedBusiness(NoAddress, NoGeo, shape, <<>>)>>) :
             shape \in ShapesOrAbsent \ {"dict", "list"}}
    \cup {Page("json", "list", <<ShapedBusiness(NoAddress, NoGeo, "dict", <<spec>>)>>) :
             spec \in {e \in HoursElements : e.isDict}}
    \cup {Page("json", "list", <<ShapedBusiness(NoAddress, NoGeo, "list", specs)>>) :
             specs \in SeqsUpTo(HoursElements, MaxShapedHours)}

AllPages ==
    {StorePage(StrRef(Txta), 1, days, <<>>) : days \in SeqsUpTo(DayTexts, MaxHours)}
    \cup {StorePage(StrRef(Txta), 1, <<>>, sv) : sv \in SeqsUpTo(ServiceTexts, MaxServices)}
    \cup MixedPages
    \cup ShapePages
    \cup {Page("absent", "object", <<>>)}

Catalogue(name) ==
    CASE name = "all" -> AllPages
      [] name = "fetch" -> FetchPages
      [] OTHER -> FewPages

\* What a request can bring: an error, or one of the pages served.
Served(name, resp) == IF resp = "ok" THEN Catalogue(name) ELSE {NoPage}

\* The store URLs of a sitemap with n of them: the sitemap is not
\* deduplicated, and the third repeats the first.
UrlAt(k) == IF k % 2 = 1 THEN "/en/a" ELSE "/en/b"
UrlList(n) == [k \in 1..n |-> UrlAt(k)]

\* -------------------------------------------------------------------- state

VARIABLES
    sitemap_exists,   \* Path(SITEMAP_FILE).exists()
    urls,             \* what extract_urls_from_sitemap returns
    workers,          \* args.workers
    catalogue,        \* the pages the site serves: "few", "all" or "fetch"
    main_pc,          \* "start", "collect", "exited" ("idle" in SpecFetch)
    exit_status,      \* "running", "0", "1"
    status,           \* per ordinal: "queued", "running", "sleeping", "done", "collected"
    attempt,          \* per ordinal: the loop variable of get_store_details
    result,           \* per ordinal: the result of the future
    html,             \* history, per ordinal: the page the task read, if any
    all_stores,       \* main's list of records
    errors,           \* main's list of (ordinal, url)
    consumed,         \* history: the ordinals in the order as_completed gave them
    stdout,           \* what was printed to stdout
    f_pc,             \* SpecFetch: "request", "sleep", "returned" ("idle" elsewhere)
    f_attempt,        \* SpecFetch: the loop variable
    f_responses,      \* SpecFetch history: the response to each request and its page
    f_slept,          \* SpecFetch history: the delay of each sleep, in ticks
    f_result,         \* SpecFetch: the value returned
    sm_pc,            \* SpecSitemap: "call", "returned" ("idle" elsewhere)
    sm_doc,           \* SpecSitemap: the sitemap file
    sm_urls           \* SpecSitemap: the list extract_urls_from_sitemap returned

mainVars == <<sitemap_exists, urls, workers, catalogue, main_pc, exit_status,
              status, attempt, result, html, all_stores, errors, consumed, stdout>>
fetchVars == <<f_pc, f_attempt, f_responses, f_slept, f_result>>
sitemapVars == <<sm_pc, sm_doc, sm_urls>>
vars == <<mainVars, fetchVars, sitemapVars>>

N == Len(urls)
Ordinals == 1..N

FetchIdle ==
    /\ f_pc = "idle"
    /\ f_attempt = 0
    /\ f_responses = <<>>
    /\ f_slept = <<>>
    /\ f_result = NoneResult

SitemapIdle ==
    /\ sm_pc = "idle"
    /\ sm_doc = Sitemap(FALSE, <<>>)
    /\ sm_urls = <<>>

\* main() before its first statement, for a sitemap yielding one of `lists`.
InitMain(lists, pool, cat) ==
    /\ sitemap_exists \in BOOLEAN
    /\ urls \in lists
    /\ workers \in pool
    /\ catalogue = cat
    /\ main_pc = "start"
    /\ exit_status = "running"
    /\ status = [i \in 1..Len(urls) |-> "queued"]
    /\ attempt = [i \in 1..Len(urls) |-> 0]
    /\ result = [i \in 1..Len(urls) |-> NoneResult]
    /\ html = [i \in 1..Len(urls) |-> NoPage]
    /\ all_stores = <<>>
    /\ errors = <<>>
    /\ consumed = <<>>
    /\ stdout = NoOutput
    /\ FetchIdle
    /\ SitemapIdle

Init == InitMain({UrlList(n) : n \in 0..MaxUrls}, 1..MaxWorkers, "few")

InitBuild == InitMain({UrlList(n) : n \in 0..1}, {1}, "all")

\* ------------------------------------------------------------------ actions

\* Lines 140-142: the sitemap file is missing.
SitemapMissing ==
    /\ main_pc = "start"
    /\ ~sitemap_exists
    /\ main_pc' = "exited"
    /\ exit_status' = "1"
    /\ UNCHANGED <<sitemap_exists, urls, workers, catalogue, status, attempt,
                   result, html, all_stores, errors, consumed, stdout, fetchVars, sitemapVars>>

\* Lines 144-147: the sitemap yields no store URL.
NoUrls ==
    /\ main_pc = "start"
    /\ sitemap_exists
    /\ urls = <<>>
    /\ main_pc' = "exited"
    /\ exit_status' = "1"
    /\ UNCHANGED <<sitemap_exists, urls, workers, catalogue, status, attempt,
                   result, html, all_stores, errors, consumed, stdout, fetchVars, sitemapVars>>

\* Mutant: the pool is created whatever lines 140-147 found.
SubmitUnchecked ==
    /\ main_pc = "start"
    /\ main_pc' = "collect"
    /\ UNCHANGED <<sitemap_exists, urls, workers, catalogue, exit_status, status,
                   attempt, result, html, all_stores, errors, consumed, stdout, fetchVars, sitemapVars>>

\* Lines 152-155: the pool is created and one task per URL is submitted.
Submit ==
    /\ main_pc = "start"
    /\ sitemap_exists
    /\ urls # <<>>
    /\ main_pc' = "collect"
    /\ UNCHANGED <<sitemap_exists, urls, workers, catalogue, exit_status, status,
                   attempt, result, html, all_stores, errors, consumed, stdout, fetchVars, sitemapVars>>

Busy == {j \in Ordinals : status[j] \in {"running", "sleeping"}}

\* A free worker of the pool takes the oldest queued task (the pool's queue
\* is first in, first out) and enters get_store_details (lines 36-39).
TaskStart(i) ==
    /\ main_pc = "collect"
    /\ status[i] = "queued"
    /\ \A j \in 1..(i - 1) : status[j] # "queued"
    /\ Cardinality(Busy) < workers
    /\ status' = [status EXCEPT ![i] = "running"]
    /\ attempt' = [attempt EXCEPT ![i] = 0]
    /\ UNCHANGED <<sitemap_exists, urls, workers, catalogue, main_pc, exit_status,
                   result, html, all_stores, errors, consumed, stdout, fetchVars, sitemapVars>>

\* Mutant: a task that returns None lists its own failure in errors.
TaskAttemptListsFailure(i) ==
    /\ status[i] = "running"
    /\ \E resp \in Responses : \E page \in Served(catalogue, resp) :
          LET step == AttemptStep(attempt[i], resp, page)
          IN  /\ status' = [status EXCEPT
                                ![i] = IF step.next = "sleep" THEN "sleeping" ELSE "done"]
              /\ result' = [result EXCEPT ![i] = step.result]
              /\ html' = [html EXCEPT ![i] = page]
              /\ attempt' = [attempt EXCEPT
                                 ![i] = IF step.next = "sleep" THEN attempt[i] ELSE 0]
              /\ errors' = IF step.next = "return" /\ ~step.result.ok
                           THEN Append(errors, [ordinal |-> i, url |-> urls[i]])
                           ELSE errors
    /\ UNCHANGED <<sitemap_exists, urls, workers, catalogue, main_pc, exit_status,
                   all_stores, consumed, stdout, fetchVars, sitemapVars>>

\* Mutant: a sleeping task holds up every request (time.sleep pausing the
\* whole process and not the calling thread alone).
TaskAttemptUnlessSleeping(i) ==
    /\ status[i] = "running"
    /\ \A j \in Ordinals : status[j] # "sleeping"
    /\ \E resp \in Responses : \E page \in Served(catalogue, resp) :
          LET step == AttemptStep(attempt[i], resp, page)
          IN  /\ status' = [status EXCEPT
                                ![i] = IF step.next = "sleep" THEN "sleeping" ELSE "done"]
              /\ result' = [result EXCEPT ![i] = step.result]
              /\ html' = [html EXCEPT ![i] = page]
              /\ attempt' = [attempt EXCEPT
                                 ![i] = IF step.next = "sleep" THEN attempt[i] ELSE 0]
    /\ UNCHANGED <<sitemap_exists, urls, workers, catalogue, main_pc, exit_status,
                   all_stores, errors, consumed, stdout, fetchVars, sitemapVars>>

\* Lines 40-119: one request of task i and what the loop does with its response.
TaskAttempt(i) ==
    /\ status[i] = "running"
    /\ \E resp \in Responses : \E page \in Served(catalogue, resp) :
          LET step == AttemptStep(attempt[i], resp, page)
          IN  /\ status' = [status EXCEPT
                                ![i] = IF step.next = "sleep" THEN "sleeping" ELSE "done"]
              /\ result' = [result EXCEPT ![i] = step.result]
              /\ html' = [html EXCEPT ![i] = page]
              /\ attempt' = [attempt EXCEPT
                                 ![i] = IF step.next = "sleep" THEN attempt[i] ELSE 0]
    /\ UNCHANGED <<sitemap_exists, urls, workers, catalogue, main_pc, exit_status,
                   all_stores, errors, consumed, stdout, fetchVars, sitemapVars>>

\* Line 39: whether range(MAX_RETRIES) still yields attempt number att.
LoopContinues(att) == att < MAX_RETRIES

\* Lines 109-110, 39 and 121: time.sleep returns and the loop takes its next
\* attempt, or ends and the function returns None.
TaskWake(i) ==
    /\ status[i] = "sleeping"
    /\ IF LoopContinues(attempt[i] + 1)
       THEN /\ status' = [status EXCEPT ![i] = "running"]
            /\ attempt' = [attempt EXCEPT ![i] = attempt[i] + 1]
       ELSE /\ status' = [status EXCEPT ![i] = "done"]
            /\ attempt' = [attempt EXCEPT ![i] = 0]
    /\ UNCHANGED <<sitemap_exists, urls, workers, catalogue, main_pc, exit_status,
                   result, html, all_stores, errors, consumed, stdout, fetchVars, sitemapVars>>

\* Line 160: `if store_data:`; a record is a non-empty dict.
Truthy(store_data) == store_data.ok

\* Lines 160-162: the list of records after the result of a future.
StoresAfter(stores, store_data) ==
    IF Truthy(store_data) THEN Append(stores, sort_opening_hours(store_data))
    ELSE stores

\* Mutant: a failure is not recorded.
ErrorsAfterDropsFailure(errs, store_data, i, url) == errs

\* Mutant: a failure is numbered by its place in the list of failures.
ErrorsAfterCountsFailures(errs, store_data, i, url) ==
    IF Truthy(store_data) THEN errs
    ELSE Append(errs, [ordinal |-> Len(errs) + 1, url |-> url])

\* Lines 165-166: the list of failures after the result of the future of
\* ordinal i.
ErrorsAfter(errs, store_data, i, url) ==
    IF Truthy(store_data) THEN errs
    ELSE Append(errs, [ordinal |-> i, url |-> url])

\* Lines 156-171: as_completed yields the finished future of ordinal i and the
\* loop body runs.  get_store_details catches every Exception of its retry
\* loop and returns None; an exception of future.result() (line 169) lists
\* the URL in errors as a None result does.
Collect(i) ==
    /\ main_pc = "collect"
    /\ status[i] = "done"
    /\ status' = [status EXCEPT ![i] = "collected"]
    /\ all_stores' = StoresAfter(all_stores, result[i])
    /\ errors' = ErrorsAfter(errors, result[i], i, urls[i])
    /\ consumed' = Append(consumed, i)
    /\ UNCHANGED <<sitemap_exists, urls, workers, catalogue, main_pc, exit_status,
                   attempt, result, html, stdout, fetchVars, sitemapVars>>

\* Lines 173-180: every future was consumed; the summary, the sort and the
\* print.  A TypeError of sorted() is caught nowhere: the process ends with a
\* traceback and status 1.
Summarise ==
    /\ main_pc = "collect"
    /\ \A i \in Ordinals : status[i] = "collected"
    /\ main_pc' = "exited"
    /\ stdout' = Output(all_stores)
    /\ exit_status' = IF SortRaises(all_stores) THEN "1" ELSE "0"
    /\ UNCHANGED <<sitemap_exists, urls, workers, catalogue, status, attempt,
                   result, html, all_stores, errors, consumed, fetchVars, sitemapVars>>

Next ==
    \/ SitemapMissing
    \/ NoUrls
    \/ Submit
    \/ \E i \in Ordinals : TaskStart(i)
    \/ \E i \in Ordinals : TaskAttempt(i)
    \/ \E i \in Ordinals : TaskWake(i)
    \/ \E i \in Ordinals : Collect(i)
    \/ Summarise

Spec == Init /\ [][Next]_vars

SpecBuild == InitBuild /\ [][Next]_vars

\* ---------------------------------------------- one call of get_store_details

MainIdle ==
    /\ sitemap_exists = TRUE
    /\ urls = <<>>
    /\ workers = 1
    /\ catalogue = "fetch"
    /\ main_pc = "idle"
    /\ exit_status = "running"
    /\ status = <<>>
    /\ attempt = <<>>
    /\ result = <<>>
    /\ html = <<>>
    /\ all_stores = <<>>
    /\ errors = <<>>
    /\ consumed = <<>>
    /\ stdout = NoOutput

\* get_store_details(url) at line 39, before its first attempt.
InitFetch ==
    /\ MainIdle
    /\ f_pc = "request"
    /\ f_attempt = 0
    /\ f_responses = <<>>
    /\ f_slept = <<>>
    /\ f_result = NoneResult
    /\ SitemapIdle

\* Lines 40-119: one request and what the loop does with its response.
FetchAttempt ==
    /\ f_pc = "request"
    /\ \E resp \in Responses : \E page \in Served(catalogue, resp), jitter \in Jitter :
          LET step == AttemptStep(f_attempt, resp, page)
          IN  /\ f_responses' = Append(f_responses, [code |-> resp, page |-> page])
              /\ IF step.next = "sleep"
                 THEN /\ f_pc' = "sleep"
                      /\ f_slept' = Append(f_slept, BackoffDelay(f_attempt, jitter))
                      /\ UNCHANGED f_result
                 ELSE /\ f_pc' = "returned"
                      /\ f_result' = step.result
                      /\ UNCHANGED f_slept
    /\ UNCHANGED <<f_attempt, mainVars, sitemapVars>>

\* Lines 109-110, 39 and 121: time.sleep returns.
FetchWake ==
    /\ f_pc = "sleep"
    /\ IF LoopContinues(f_attempt + 1)
       THEN /\ f_pc' = "request"
            /\ UNCHANGED f_result
       ELSE /\ f_pc' = "returned"
            /\ f_result' = NoneResult
    /\ f_attempt' = f_attempt + 1
    /\ UNCHANGED <<f_responses, f_slept, mainVars, sitemapVars>>

\* Lines 156-166 for the future of this call, taken as that of the first
\* URL: as_completed yields it and the loop body runs.
FetchCollect ==
    /\ f_pc = "returned"
    /\ consumed = <<>>
    /\ consumed' = <<1>>
    /\ all_stores' = StoresAfter(all_stores, f_result)
    /\ errors' = ErrorsAfter(errors, f_result, 1, UrlAt(1))
    /\ UNCHANGED <<sitemap_exists, urls, workers, catalogue, main_pc, exit_status,
                   status, attempt, result, html, stdout, fetchVars, sitemapVars>>

NextFetch == FetchAttempt \/ FetchWake \/ FetchCollect

SpecFetch == InitFetch /\ [][NextFetch]_vars

\* ------------------------------------- one call of extract_urls_from_sitemap

\* The <loc> texts of the sitemaps: two store pages, the home page, and a
\* <loc> without text.
LocTexts ==
    {LocText(<<"https://locations.", "ampol.com.au", "/en/", "a">>),
     LocText(<<"https://locations.", "ampol.com.au", "/en/", "b">>),
     LocText(<<"https://locations.", "ampol.com.au", "/">>),
     NoText}

\* The sitemap files: every list of at most MaxLocs such elements, and a
\* file that is not XML.
Sitemaps ==
    {Sitemap(TRUE, locs) : locs \in SeqsUpTo(LocTexts, MaxLocs)}
        \cup {Sitemap(FALSE, <<>>)}

\* extract_urls_from_sitemap(SITEMAP_FILE) at line 144, before it runs.
InitSitemap ==
    /\ MainIdle
    /\ FetchIdle
    /\ sm_pc = "call"
    /\ sm_doc \in Sitemaps
    /\ sm_urls = <<>>

\* Lines 19-32: the call returns.
ExtractUrls ==
    /\ sm_pc = "call"
    /\ sm_pc' = "returned"
    /\ sm_urls' = extract_urls_from_sitemap(sm_doc)
    /\ UNCHANGED <<sm_doc, mainVars, fetchVars>>

NextSitemap == ExtractUrls

SpecSitemap == InitSitemap /\ [][NextSitemap]_vars

\* =================================================================== claims

\* The collection loop of main (lines 156-171) has consumed every future.
LoopFinished ==
    /\ main_pc \in {"collect", "exited"}
    /\ urls # <<>>
    /\ \A i \in Ordinals : status[i] = "collected"

\* main has ended after a sitemap that exists and yields a URL.
BatchEnded == main_pc = "exited" /\ sitemap_exists /\ urls # <<>>

Succeeded(i) == result[i].ok
Failed(i) == ~result[i].ok

\* The ordinals whose record was appended to all_stores, in that order.
ConsumedStores == SelectSeq(consumed, Succeeded)
\* The ordinals whose failure was appended to errors, in that order.
ConsumedFailures == SelectSeq(consumed, Failed)

AllOrdinals == [i \in 1..N |-> i]

ErrorEntry(i) == [ordinal |-> i, url |-> urls[i]]

Occurrences(seq, x) == Cardinality({k \in DOMAIN seq : seq[k] = x})

SamePopulation(s, t) ==
    /\ Len(s) = Len(t)
    /\ \A x \in Range(s) \cup Range(t) : Occurrences(s, x) = Occurrences(t, x)

\* ------------------------------------------------------------------------ C1
\* C1: when the collection loop of main finishes, every ordinal 1..N has
\* produced exactly one outcome: it stands for exactly one record of
\* all_stores or for exactly one entry of errors, never both, never neither,
\* and len(all_stores) + len(errors) = N.
C1_ExactlyOneOutcome ==
    LoopFinished =>
        /\ Len(all_stores) + Len(errors) = N
        /\ Len(all_stores) = Len(ConsumedStores)
        /\ \A i \in Ordinals :
              LET inStores ==
                      Cardinality({k \in DOMAIN ConsumedStores :
                                      /\ ConsumedStores[k] = i
                                      /\ all_stores[k].ref = result[i].ref
                                      /\ all_stores[k].name = result[i].name})
                  inErrors ==
                      Cardinality({k \in DOMAIN errors : errors[k].ordinal = i})
              IN  inStores + inErrors = 1

\* C1 witness: three URLs, the first a record, the second and third failures.
C1_Witness ==
    /\ LoopFinished
    /\ N = 3
    /\ Succeeded(1) /\ Failed(2) /\ Failed(3)
    /\ Len(all_stores) = 1
    /\ {errors[k].ordinal : k \in DOMAIN errors} = {2, 3}

\* ------------------------------------------------------------------------ C2
\* C2: once the sitemap exists and yields a URL, nothing a page holds or
\* fails with aborts the batch: main ends with the JSON array of the records
\* on stdout and status zero; only a missing sitemap or an empty URL list
\* ends it with a non-zero status.
C2_BatchNeverAborts ==
    main_pc = "exited" =>
        IF sitemap_exists /\ urls # <<>>
        THEN /\ exit_status = "0"
             /\ stdout.printed
             /\ SamePopulation(stdout.array, all_stores)
        ELSE exit_status = "1" /\ ~stdout.printed

\* ------------------------------------------------------------------------ C3
\* The key the claim sorts by: the reference id, an absent one as "".
RefText(rec) == IF rec.ref.t = "None" THEN TxtEmpty ELSE rec.ref.s

\* C3: the array printed is the successful records in ascending order of
\* reference id, a record without '@id' or with an empty one before every
\* record with a non-empty one, whatever records the batch collected.
C3_OutputSortedByRef ==
    BatchEnded =>
        /\ stdout.printed
        /\ SamePopulation(stdout.array, all_stores)
        /\ \A j, k \in DOMAIN stdout.array :
              j < k => ~StrLess(RefText(stdout.array[k]), RefText(stdout.array[j]))

\* ------------------------------------------------------------------------ C4
FetchCodes == [k \in DOMAIN f_responses |-> f_responses[k].code]

LastResponse == f_responses[Len(f_responses)]

\* C4: a further request is issued only if every earlier response was 429;
\* any other response ends the call on that same attempt with None (a page
\* that parses apart), with no sleep and no further request.
C4_RetryOnlyAfter429 ==
    /\ \A k \in 1..(Len(f_responses) - 1) : FetchCodes[k] = "429"
    /\ (f_responses # <<>> /\ LastResponse.code # "429") =>
          /\ f_pc = "returned"
          /\ f_attempt = Len(f_responses) - 1
          /\ Len(f_slept) = Len(f_responses) - 1
          /\ (LastResponse.code # "ok" \/ LastResponse.page.block = "malformed")
                => f_result = NoneResult

\* C4 witness: a 429, then a transport error, and the call has returned.
C4_Witness ==
    /\ f_pc = "returned"
    /\ FetchCodes = <<"429", "url_error">>

\* ------------------------------------------------------------------------ C5
\* C5: a call issues at most MAX_RETRIES requests; after the fifth response
\* it has returned; and it fails on a 429 only when that was the response to
\* the fifth request, never to an earlier one.
C5_AtMostMaxRetriesRequests ==
    /\ Len(f_responses) <= MAX_RETRIES
    /\ Len(f_responses) = MAX_RETRIES => f_pc = "returned"
    /\ (f_pc = "returned" /\ LastResponse.code = "429") =>
          /\ Len(f_responses) = 5
          /\ \A k \in DOMAIN f_responses : FetchCodes[k] = "429"
          /\ f_result = NoneResult

\* C5 witness: five responses 429 and the call has returned None.
C5_Witness ==
    /\ f_pc = "returned"
    /\ FetchCodes = <<"429", "429", "429", "429", "429">>
    /\ f_result = NoneResult

\* ------------------------------------------------------------------------ C6
RECURSIVE SumSeq(_)
SumSeq(s) == IF s = <<>> THEN 0 ELSE s[1] + SumSeq(Tail(s))

\* C6: a call of k requests sleeps k-1 times, once before each attempt n in
\* 2..k, never before attempt 1 nor after the last; the sleep before attempt
\* n lasts at least INITIAL_DELAY * 2^(n-2) seconds (2, 4, 8, 16) and less
\* than one second more; 429, 429, 200 returns the record after sleeping at
\* least 6 seconds in all.
C6_BackoffSleeps ==
    /\ Len(f_slept) = IF f_pc = "returned" THEN Len(f_responses) - 1
                      ELSE Len(f_responses)
    /\ \A n \in 2..(Len(f_slept) + 1) :
          /\ f_slept[n - 1] >= INITIAL_DELAY * Pow2(n - 2) * JitterRes
          /\ f_slept[n - 1] < (INITIAL_DELAY * Pow2(n - 2) + 1) * JitterRes
          /\ f_slept[n - 1] >= <<2, 4, 8, 16>>[n - 1] * JitterRes
    /\ (/\ f_pc = "returned"
        /\ FetchCodes = <<"429", "429", "ok">>
        /\ LastResponse.page.block = "json"
        /\ StoreIndex(DataList(LastResponse.page)) # 0) =>
          /\ f_result.ok
          /\ SumSeq(f_slept) >= 6 * JitterRes

\* C6 witness: 429, 429, 200 has returned a record.
C6_Witness ==
    /\ f_pc = "returned"
    /\ FetchCodes = <<"429", "429", "ok">>
    /\ f_result.ok
    /\ Len(f_slept) = 2

\* ------------------------------------------------------------------------ C7
\* The failures listed in the order of the sitemap: what the loop collects
\* when the tasks complete in the order they were submitted.
InOrderErrors ==
    LET f == SelectSeq(AllOrdinals, Failed)
    IN  [k \in DOMAIN f |-> ErrorEntry(f[k])]

\* C7 as stated: the sequence of (ordinal, url) entries in errors is the same
\* for every completion order.  Completion in the order of submission is one
\* of those orders, so every run would have to end with InOrderErrors.
C7_ErrorReportSameForEveryOrder == LoopFinished => errors = InOrderErrors

\* C7 amended: errors holds one entry per failed URL, with its 1-based
\* sitemap ordinal and its own URL, the same entries for every completion
\* order; they are listed in the order the failed tasks were consumed.
C7_ErrorReportInCompletionOrder ==
    /\ errors = [k \in DOMAIN ConsumedFailures |-> ErrorEntry(ConsumedFailures[k])]
    /\ LoopFinished => SamePopulation(errors, InOrderErrors)

\* C7 witness: two failures, listed against the order of the sitemap.
C7_Witness ==
    /\ LoopFinished
    /\ Len(errors) = 2
    /\ errors[1].ordinal > errors[2].ordinal

\* ------------------------------------------------------------------------ C8
\* The records collected when the tasks complete in the order of submission.
InOrderStores ==
    LET f == SelectSeq(AllOrdinals, Succeeded)
    IN  [k \in DOMAIN f |-> sort_opening_hours(result[f[k]])]

\* C8 as stated: the array handed to output is the same sequence for every
\* completion order, records sharing a reference id included.  Completion in
\* the order of submission is one of those orders.
C8_OutputSameForEveryOrder == BatchEnded => stdout = Output(InOrderStores)

\* No two different successful records carry the same reference id.
NoRefTie ==
    \A i, j \in Ordinals :
        (Succeeded(i) /\ Succeeded(j) /\ result[i].ref = result[j].ref)
            => result[i] = result[j]

WithRef(seq, r) == LET has(rec) == rec.ref = r IN SelectSeq(seq, has)

\* C8 amended: what main hands to output is the same for every completion
\* order provided no two different successful records carry the same
\* reference id; records sharing a reference id are printed in the order
\* they were collected.
C8_OutputSameUnlessRefsTie ==
    BatchEnded =>
        /\ NoRefTie => stdout = Output(InOrderStores)
        /\ stdout.printed =>
              \A r \in {all_stores[k].ref : k \in DOMAIN all_stores} :
                  WithRef(stdout.array, r) = WithRef(all_stores, r)

\* C8 witness: two records with different reference ids, collected against
\* the order of the sitemap and printed.
C8_Witness ==
    /\ BatchEnded
    /\ stdout.printed
    /\ NoRefTie
    /\ Len(ConsumedStores) >= 2
    /\ ConsumedStores[1] > ConsumedStores[2]
    /\ all_stores[1].ref # all_stores[2].ref
    /\ stdout.array # all_stores

\* ------------------------------------------------------------------------ C9
WeekDays ==
    <<"Monday", "Tuesday", "Wednesday", "Thursday", "Friday", "Saturday", "Sunday">>

\* The place of a day in the week; 8 for a text that names no day.
DayPlace(day) ==
    IF \E k \in DOMAIN WeekDays : WeekDays[k] = day
    THEN CHOOSE k \in DOMAIN WeekDays : WeekDays[k] = day
    ELSE 8

OnPlace(hours, p) == LET at(e) == DayPlace(e.dayOfWeek) = p IN SelectSeq(hours, at)

DaysOf(hours) == [k \in DOMAIN hours |-> hours[k].dayOfWeek]

\* C9: every record collected and printed has its openingHours in the order
\* Monday .. Sunday, the entries naming no day after all others; entries of
\* the same day, and those naming no day, keep the order they had on the
\* page.  Wednesday, Monday, Sunday, bogus gives Monday, Wednesday, Sunday,
\* bogus.
C9_OpeningHoursMondayToSunday ==
    /\ \A k \in DOMAIN all_stores :
          LET out == all_stores[k].openingHours
              inp == result[ConsumedStores[k]].openingHours
          IN  /\ \A a, b \in DOMAIN out :
                    a < b => DayPlace(out[a].dayOfWeek) <= DayPlace(out[b].dayOfWeek)
              /\ \A p \in 1..8 : OnPlace(out, p) = OnPlace(inp, p)
              /\ DaysOf(inp) = <<"Wednesday", "Monday", "Sunday", "bogus">>
                    => DaysOf(out) = <<"Monday", "Wednesday", "Sunday", "bogus">>
    /\ stdout.printed => Range(stdout.array) \subseteq Range(all_stores)

\* C9 witness: the page listed Wednesday, Monday, Sunday, bogus and the
\* record was printed.
C9_Witness ==
    /\ main_pc = "exited"
    /\ stdout.printed
    /\ Len(stdout.array) = 1
    /\ DaysOf(result[1].openingHours) = <<"Wednesday", "Monday", "Sunday", "bogus">>
    /\ stdout.array[1].openingHours =
          <<[dayOfWeek |-> "Monday", opens |-> 2], [dayOfWeek |-> "Wednesday", opens |-> 1],
            [dayOfWeek |-> "Sunday", opens |-> 3], [dayOfWeek |-> "bogus", opens |-> 4]>>

\* ----------------------------------------------------------------------- C10
\* The serviceType texts of the Service items of a page, in page order.
PageServices(page) ==
    LET isService(item) == item.isDict /\ item.type = "Service" /\ item.hasServiceType
        sel == SelectSeq(page.items, isService)
    IN  [k \in DOMAIN sel |-> sel[k].serviceType]

\* C10: every record collected and printed lists each service of its page
\* once, in ascending order, whatever their order and number on the page.
\* Ca, F, Ca gives Ca, F.
C10_ServicesSortedDistinct ==
    /\ \A k \in DOMAIN all_stores :
          LET sv == all_stores[k].services
              onPage == PageServices(html[ConsumedStores[k]])
          IN  /\ \A j \in 1..(Len(sv) - 1) : StrLess(sv[j], sv[j + 1])
              /\ Range(sv) = Range(onPage)
              /\ onPage = <<TxtCa, TxtF, TxtCa>> => sv = <<TxtCa, TxtF>>
    /\ stdout.printed => Range(stdout.array) \subseteq Range(all_stores)

\* C10 witness: the page listed Ca, F, Ca and the record was printed.
C10_Witness ==
    /\ main_pc = "exited"
    /\ stdout.printed
    /\ Len(stdout.array) = 1
    /\ PageServices(html[1]) = <<TxtCa, TxtF, TxtCa>>
    /\ stdout.array[1].services = <<TxtCa, TxtF>>

\* ----------------------------------------------------------------------- C11
\* A page that gives no record: no opening or no closing delimiter, or a
\* block without a LocalBusiness item.
NoRecordPage(page) ==
    \/ page.block \in {"absent", "unclosed"}
    \/ /\ page.block = "json"
       /\ \A k \in DOMAIN page.items :
             ~(page.items[k].isDict /\ page.items[k].type = "LocalBusiness")

\* The call has returned and, if main has consumed its future, the URL is
\* listed in errors and gave no record.
EndedAsFailure ==
    /\ f_pc = "returned"
    /\ f_result = NoneResult
    /\ consumed = <<1>> =>
          /\ errors = <<[ordinal |-> 1, url |-> UrlAt(1)]>>
          /\ all_stores = <<>>

\* C11 as stated: a task whose page has no structured-data block, or a block
\* without a LocalBusiness item, ends as a failure after exactly one HTTP
\* request: None is returned, the (ordinal, url) goes to errors and no record
\* is collected.
C11_NoRecordAfterOneRequest ==
    \A k \in DOMAIN f_responses :
        (f_responses[k].code = "ok" /\ NoRecordPage(f_responses[k].page)) =>
            /\ Len(f_responses) = 1
            /\ EndedAsFailure

\* C11 amended: such a task ends as a failure on the request that fetched
\* the page: no sleep and no request follows it, and the requests before it
\* were all answered 429 (it is the only request when none was).
C11_NoRecordNoRetry ==
    \A k \in DOMAIN f_responses :
        (f_responses[k].code = "ok" /\ NoRecordPage(f_responses[k].page)) =>
            /\ k = Len(f_responses)
            /\ \A j \in 1..(k - 1) : f_responses[j].code = "429"
            /\ Len(f_slept) = k - 1
            /\ f_attempt = k - 1
            /\ EndedAsFailure

\* C11 witness: the only request fetched a page without a block, and main
\* has listed the URL in errors.
C11_Witness ==
    /\ f_pc = "returned"
    /\ Len(f_responses) = 1
    /\ f_responses[1].code = "ok"
    /\ f_responses[1].page.block = "absent"
    /\ consumed = <<1>>
    /\ errors = <<[ordinal |-> 1, url |-> UrlAt(1)]>>
    /\ all_stores = <<>>

\* ----------------------------------------------------------------------- C12
\* Lines 140-147: the sitemap file is missing, or extract_urls_from_sitemap
\* returned the empty list (which it also does when parsing raised).
StartupFailure == ~sitemap_exists \/ urls = <<>>

\* C12: when the sitemap file is missing or no store URL was extracted, main
\* exits with a non-zero status before the pool exists: no task is ever
\* started, no page is ever requested, nothing is collected and no JSON is
\* printed.
C12_StartupFailureBeforePool ==
    StartupFailure =>
        /\ main_pc \in {"start", "exited"}
        /\ main_pc = "exited" => exit_status = "1"
        /\ \A i \in Ordinals :
              status[i] = "queued" /\ html[i] = NoPage /\ result[i] = NoneResult
        /\ consumed = <<>> /\ all_stores = <<>> /\ errors = <<>>
        /\ stdout = NoOutput

\* C12 witness: main has exited on an empty list of URLs.
C12_Witness ==
    /\ main_pc = "exited"
    /\ sitemap_exists
    /\ urls = <<>>
    /\ exit_status = "1"
    /\ stdout = NoOutput

\* ----------------------------------------------------------------------- C13
\* A <loc> element whose text holds the store-path marker.
IsStoreLoc(loc) == loc.t = "str" /\ Contains(loc.s, Marker)

\* C13: extract_urls_from_sitemap returns exactly the <loc> texts holding
\* 'ampol.com.au/en/', in document order, whatever other <loc> elements
\* (without the marker, or without text) the sitemap holds.
C13_ExactlyTheStoreUrls ==
    sm_pc = "returned" =>
        LET stores == SelectSeq(sm_doc.locs, IsStoreLoc)
        IN  sm_urls = [k \in DOMAIN stores |-> stores[k].s]

\* ----------------------------------------------------------------------- C14
\* The task of ordinal i has returned after reading a decoded block.
ParsedBlock(i) ==
    /\ status[i] \in {"done", "collected"}
    /\ html[i].block = "json"

\* The places of the LocalBusiness items of a block given as a list or
\* under '@graph'.
Businesses(page) ==
    {k \in DOMAIN page.items :
        page.items[k].isDict /\ page.items[k].type = "LocalBusiness"}

\* The record's fields of the business entity are those of the item.
FieldsFrom(rec, item) ==
    /\ rec.ok
    /\ rec.ref = item.id
    /\ rec.name = item.name
    /\ Len(rec.openingHours) =
           Cardinality({k \in DOMAIN item.hours : item.hours[k].isDict})

\* C14 as stated: when a block holds more than one LocalBusiness item, the
\* fields (ref, name, opening hours) of the record that is built are those
\* of the first one.
C14_FieldsFromFirstBusiness ==
    \A i \in Ordinals :
        (ParsedBlock(i) /\ result[i].ok /\ html[i].shape # "object") =>
            LET first == CHOOSE k \in Businesses(html[i]) :
                             \A j \in Businesses(html[i]) : k <= j
            IN  FieldsFrom(result[i], html[i].items[first])

\* C14 amended: the fields of the record that is built are those of the last
\* LocalBusiness item of the block, and the record collected is that one.
C14_FieldsFromLastBusiness ==
    \A i \in Ordinals :
        (ParsedBlock(i) /\ result[i].ok /\ html[i].shape # "object") =>
            LET last == CHOOSE k \in Businesses(html[i]) :
                            \A j \in Businesses(html[i]) : j <= k
            IN  /\ FieldsFrom(result[i], html[i].items[last])
                /\ status[i] = "collected" =>
                      /\ Len(all_stores) = 1
                      /\ all_stores[1].ref = html[i].items[last].id
                      /\ all_stores[1].name = html[i].items[last].name

\* C14 witness: a block with two different stores was read, and the record
\* collected is that of the second.
C14_Witness ==
    /\ N = 1
    /\ status[1] = "collected"
    /\ html[1].block = "json"
    /\ Len(html[1].items) = 2
    /\ html[1].items[1] = LocalBusiness(StrRef(Txta), 1, HoursList(<<<<"Monday">>>>))
    /\ html[1].items[2] = LocalBusiness(StrRef(Txtb), 2, <<>>)
    /\ Len(all_stores) = 1
    /\ all_stores[1].ref = StrRef(Txtb)
    /\ all_stores[1].name = 2

\* ----------------------------------------------------------------------- C15
\* The task of ordinal i has built a record from a decoded block.
BuiltRecord(i) == ParsedBlock(i) /\ result[i].ok

\* The Service items of a block that hold the key 'serviceType'.
ServicesWithKey(page) ==
    {k \in DOMAIN page.items :
        /\ page.items[k].isDict
        /\ page.items[k].type = "Service"
        /\ page.items[k].hasServiceType}

\* C15 as stated: the services of a record are the serviceType values of the
\* Service items whose field is present and non-empty; a missing or an empty
\* field, and an item of another type, contribute nothing.
C15_ServicesPresentAndNonEmpty ==
    \A i \in Ordinals :
        BuiltRecord(i) =>
            Range(result[i].services) =
                {html[i].items[k].serviceType :
                    k \in {j \in ServicesWithKey(html[i]) :
                              html[i].items[j].serviceType # TxtEmpty}}

\* C15 amended: they are the serviceType values of the Service items that
\* hold the key, an empty text included; a Service item without the key and
\* an item of another type contribute nothing.
C15_ServicesOfKeyHolders ==
    \A i \in Ordinals :
        BuiltRecord(i) =>
            Range(result[i].services) =
                {html[i].items[k].serviceType : k \in ServicesWithKey(html[i])}

\* C15 witness: a store with a Service item whose serviceType is empty and a
\* mapping of another type holding the key: the record lists the empty text
\* alone.
C15_Witness ==
    /\ N = 1
    /\ BuiltRecord(1)
    /\ Len(html[1].items) = 3
    /\ html[1].items[2] = Service(TRUE, TxtEmpty)
    /\ html[1].items[3] = Organization(TRUE, TxtC)
    /\ result[1].services = <<TxtEmpty>>

\* ----------------------------------------------------------------------- C16
\* The LocalBusiness item the record is built from: the last one.
StoreItem(page) ==
    page.items[CHOOSE k \in Businesses(page) : \A j \in Businesses(page) : j <= k]

\* The task of ordinal i has parsed a block holding a LocalBusiness item.
ParsedBusiness(i) == ParsedBlock(i) /\ Businesses(html[i]) # {}

\* A coordinate of the item is a text that is not a number.
BadCoordinate(item, key) ==
    /\ ShapeOf(item.geo) = "dict"
    /\ LET c == IF key = "latitude" THEN item.geo[1].latitude ELSE item.geo[1].longitude
       IN  c # Absent /\ c[1].kind = "text"

HasBadCoordinate(item) ==
    BadCoordinate(item, "latitude") \/ BadCoordinate(item, "longitude")

\* C16: whenever a LocalBusiness item is present a record is produced, for
\* every shape (mapping, sequence, string, number, null) of address,
\* addressCountry, geo, openingHoursSpecification and of the dayOfWeek of its
\* entries; a value of the wrong shape gives an absent field and never a
\* failure.  (Coordinates that are not numbers are the matter of C17.)
C16_RecordForEveryShape ==
    \A i \in Ordinals :
        (ParsedBusiness(i) /\ ~HasBadCoordinate(StoreItem(html[i]))) =>
            LET item == StoreItem(html[i])
            IN  /\ result[i].ok
                /\ ShapeOf(item.address) # "dict" =>
                      result[i].address = NoneVal /\ result[i].country = NoneVal
                /\ ShapeOf(item.address) = "dict" =>
                      (ShapeOf(item.address[1].country) # "dict" =>
                          result[i].country = NoneVal)
                /\ ShapeOf(item.geo) # "dict" =>
                      result[i].latitude = NoneVal /\ result[i].longitude = NoneVal
                /\ item.hoursShape \notin {"dict", "list"} => result[i].openingHours = <<>>

\* ----------------------------------------------------------------------- C17
\* C17: when the latitude or the longitude is a text that cannot be
\* converted to a number, the task still succeeds and its record holds None
\* for that coordinate.
C17_BadCoordinateBecomesAbsent ==
    \A i \in Ordinals :
        (ParsedBusiness(i) /\ HasBadCoordinate(StoreItem(html[i]))) =>
            LET item == StoreItem(html[i])
            IN  /\ result[i].ok
                /\ BadCoordinate(item, "latitude") => result[i].latitude = NoneVal
                /\ BadCoordinate(item, "longitude") => result[i].longitude = NoneVal

\* ----------------------------------------------------------------------- C18
\* The same items held in another shape, and the items that are mappings.
Reshaped(page, shape) == Page("json", shape, page.items)
IsItemMapping(item) == item.isDict
MappingsOnly(page) == Page("json", "list", SelectSeq(page.items, IsItemMapping))

\* C18: the result of a task does not depend on the shape of the block: the
\* same items under '@graph' and as a list give the same result, a single
\* object gives the result of the one-element list holding it, and in every
\* shape the result is that of the block without its items that are not
\* mappings.
C18_ShapeIndependent ==
    \A i \in Ordinals :
        ParsedBlock(i) =>
            /\ html[i].shape = "graph" => result[i] = ParsePage(Reshaped(html[i], "list"))
            /\ html[i].shape = "list" => result[i] = ParsePage(Reshaped(html[i], "graph"))
            /\ html[i].shape = "object" => result[i] = ParsePage(Reshaped(html[i], "list"))
            /\ result[i] = ParsePage(MappingsOnly(html[i]))

\* C18 witness: a block under '@graph' holding a store, an item that is not
\* a mapping and a Service item gave the record of the store with its
\* service.
C18_Witness ==
    /\ N = 1
    /\ BuiltRecord(1)
    /\ html[1].shape = "graph"
    /\ html[1].items =
          <<LocalBusiness(StrRef(Txtb), 2, <<>>), NotAMapping, Service(TRUE, TxtF)>>
    /\ result[1].ref = StrRef(Txtb)
    /\ result[1].services = <<TxtF>>

\* ----------------------------------------------------------------------- C19
\* Task i holds a worker: it waits for its response or sleeps in its backoff.
InFlight(i) == status[i] \in {"running", "sleeping"}

\* C19: with a pool of two workers or more, while a task t sleeps in its
\* backoff (or waits for its response) every other task u that holds a
\* worker can take its next step (its request returns, its sleep ends), and
\* the collector can consume every future that is done.
C19_SleepBlocksNoOtherTask ==
    workers >= 2 =>
        \A u \in Ordinals :
            (\E t \in Ordinals \ {u} : InFlight(t)) =>
                /\ status[u] = "running" => ENABLED TaskAttempt(u)
                /\ status[u] = "sleeping" => ENABLED TaskWake(u)
                /\ status[u] = "done" => ENABLED Collect(u)

\* C19 witness: in a pool of two workers the first task sleeps while the
\* third waits for its response and the second is done and not yet consumed.
C19_Witness ==
    /\ workers = 2
    /\ N = 3
    /\ status[1] = "sleeping"
    /\ status[2] = "done"
    /\ status[3] = "running"

\* ----------------------------------------------------------------------- C20
\* This step is a step of the worker running task i: the task is started,
\* its request returns or its sleep ends.
WorkerStep(i) ==
    /\ status'[i] # status[i]
    /\ status'[i] \in {"running", "sleeping", "done"}

\* This step is the collector consuming the future of task i.
CollectorStep(i) ==
    /\ main_pc = "collect"
    /\ status[i] = "done"
    /\ status'[i] = "collected"
    /\ consumed' = Append(consumed, i)

\* The state of task j is left as it was.
TaskUnchanged(j) ==
    /\ status'[j] = status[j]
    /\ attempt'[j] = attempt[j]
    /\ result'[j] = result[j]
    /\ html'[j] = html[j]

\* C20: a step of a worker leaves all_stores and errors, and the state of
\* every other task, as they were; all_stores and errors change only in a
\* step of the collector loop, which consumes one future and appends one
\* entry to one of them.
C20_OnlyCollectorAppends ==
    [][ /\ \A i \in Ordinals :
              WorkerStep(i) =>
                  /\ all_stores' = all_stores
                  /\ errors' = errors
                  /\ consumed' = consumed
                  /\ \A j \in Ordinals \ {i} : TaskUnchanged(j)
        /\ (all_stores' # all_stores \/ errors' # errors) =>
              /\ \E i \in Ordinals :
                    /\ CollectorStep(i)
                    /\ \A j \in Ordinals \ {i} : TaskUnchanged(j)
              /\ Len(all_stores') + Len(errors') = Len(all_stores) + Len(errors) + 1
              /\ SubSeq(all_stores', 1, Len(all_stores)) = all_stores
              /\ SubSeq(errors', 1, Len(errors)) = errors
        /\ \A i \in Ordinals :
              CollectorStep(i) =>
                  Len(all_stores') + Len(errors') = Len(all_stores) + Len(errors) + 1
      ]_vars

\* C20 witness: the collector has consumed the future of the second task
\* and appended its entry while the first task is in its retry loop.
C20_Witness ==
    /\ N >= 2
    /\ consumed = <<2>>
    /\ Len(all_stores) + Len(errors) = 1
    /\ status[1] = "running"
    /\ attempt[1] = 1

====
